---- MODULE Spec2Model ----
(***************************************************************************)
(* Model of the sail-plan advice pipeline of src/src/App.tsx: the React    *)
(* component state (inputs, advice, loading, error), the form handlers     *)
(* handleChange and handleSubmit, and the external calls handleSubmit      *)
(* awaits (geocode fetch, forecast fetch, chat completion).                *)
(*                                                                         *)
(* Text that the code inspects (trim, startsWith, template literals) is a  *)
(* sequence of one-character strings.  Text the code only stores and       *)
(* tests for emptiness (error messages, completion content) is a string.   *)
(* Time is counted in hours since 1970-01-01T00:00Z.                       *)
(*                                                                         *)
(* One action is one uninterrupted piece of a handler: handleSubmit runs   *)
(* from the submit event to its first await, and each ...Returns action    *)
(* runs from the settling of one awaited promise to the next await or to   *)
(* the end of the catch/finally.  `runs` holds the invocations that are    *)
(* still suspended and the one that finished last.  A submit event needs   *)
(* the form to be rendered, the button enabled and the five `required`     *)
(* fields to have a value.                                                 *)
(***************************************************************************)
EXTENDS Integers, Sequences, FiniteSets, TLC

\* ------------------------------------------------------------------ bounds
\* Number of handleSubmit invocations that may be suspended at one time.
MaxRuns == 2
\* Longest forecast list the forecast service returns.
MaxList == 2
\* Number of clock advances followed in one behaviour.
MaxTicks == 1

\* ------------------------------------------------------------ text helpers
Space == " "

RECURSIVE TrimStart(_)
TrimStart(s) ==
  IF s # <<>> /\ Head(s) = Space THEN TrimStart(Tail(s)) ELSE s

RECURSIVE TrimEnd(_)
TrimEnd(s) ==
  IF s # <<>> /\ s[Len(s)] = Space THEN TrimEnd(SubSeq(s, 1, Len(s) - 1)) ELSE s

\* String.prototype.trim
Trim(s) == TrimEnd(TrimStart(s))

\* String.prototype.startsWith
StartsWith(s, p) == Len(p) <= Len(s) /\ SubSeq(s, 1, Len(p)) = p

\* Array.prototype.join
RECURSIVE Join(_, _)
Join(lines, sep) ==
  IF lines = <<>> THEN <<>>
  ELSE IF Len(lines) = 1 THEN lines[1]
       ELSE lines[1] \o sep \o Join(Tail(lines), sep)

Digit(n) == <<"0", "1", "2", "3", "4", "5", "6", "7", "8", "9">>[n + 1]

\* Number -> decimal text, as a template literal renders an integer
RECURSIVE NumText(_)
NumText(n) ==
  IF n < 0 THEN <<"-">> \o NumText(0 - n)
  ELSE IF n < 10 THEN <<Digit(n)>>
  ELSE NumText(n \div 10) \o <<Digit(n % 10)>>

\* zero padding used by Date.prototype.toISOString
RECURSIVE PadStart(_, _)
PadStart(s, width) == IF Len(s) >= width THEN s ELSE PadStart(<<"0">> \o s, width)

\* encodeURIComponent on the characters the model uses
EncodeChar(c) ==
  IF c = "," THEN <<"%", "2", "C">>
  ELSE IF c = Space THEN <<"%", "2", "0">>
  ELSE <<c>>

RECURSIVE encodeURIComponent(_)
encodeURIComponent(s) ==
  IF s = <<>> THEN <<>> ELSE EncodeChar(Head(s)) \o encodeURIComponent(Tail(s))

\* ------------------------------------------------------------ date helpers
\* Day number (days since 1970-01-01) -> [y, m, d] in the proleptic
\* Gregorian calendar, the calendar of the ECMAScript Date object.
CivilFromDays(z0) ==
  LET z   == z0 + 719468
      era == z \div 146097
      doe == z - era * 146097
      yoe == (doe - doe \div 1460 + doe \div 36524 - doe \div 146096) \div 365
      doy == doe - (365 * yoe + yoe \div 4 - yoe \div 100)
      mp  == (5 * doy + 2) \div 153
      d   == doy - (153 * mp + 2) \div 5 + 1
      m   == IF mp < 10 THEN mp + 3 ELSE mp - 9
      y   == yoe + era * 400 + (IF m <= 2 THEN 1 ELSE 0)
  IN [y |-> y, m |-> m, d |-> d]

\* [y, m, d] -> day number
DaysFromCivil(y0, m, d) ==
  LET y   == IF m <= 2 THEN y0 - 1 ELSE y0
      era == y \div 400
      yoe == y - era * 400
      doy == (153 * (IF m > 2 THEN m - 3 ELSE m + 9) + 2) \div 5 + d - 1
      doe == yoe * 365 + yoe \div 4 - yoe \div 100 + doy
  IN era * 146097 + doe - 719468

\* ECMAScript MakeDay(year, month, date): the date may overflow the month
MakeDay(y, m, date) == DaysFromCivil(y, m, 1) + date - 1

\* Date.prototype.getDate in a zone `offset` hours east of UTC
getDate(t, offset) == CivilFromDays((t + offset) \div 24).d

\* Date.prototype.setDate(date) in a zone `offset` hours east of UTC:
\* replaces the local day-of-month, keeps the local time of day
setDate(t, offset, date) ==
  LET local == t + offset
      c     == CivilFromDays(local \div 24)
  IN MakeDay(c.y, c.m, date) * 24 + (local % 24) - offset

\* Date.prototype.toISOString: UTC fields, "YYYY-MM-DDTHH:00:00.000Z"
toISOString(t) ==
  LET c == CivilFromDays(t \div 24)
  IN PadStart(NumText(c.y), 4) \o <<"-">> \o PadStart(NumText(c.m), 2) \o <<"-">>
     \o PadStart(NumText(c.d), 2) \o <<"T">> \o PadStart(NumText(t % 24), 2)
     \o <<":", "0", "0", ":", "0", "0", ".", "0", "0", "0", "Z">>

\* s.split(sep)[0]: the text before the first separator
RECURSIVE SplitFirst(_, _)
SplitFirst(s, sep) ==
  IF s = <<>> \/ Head(s) = sep THEN <<>> ELSE <<Head(s)>> \o SplitFirst(Tail(s), sep)

\* ------------------------------------------------------- program constants
\* limit=1 of the geocoding query: the service returns at most one match
GeocodeLimit == 1

ConfigErrorMessage ==
  "API keys are missing. Please set VITE_OPENWEATHER_API_KEY and VITE_XAI_API_KEY in your .env file."
ValidationErrorMessage == "Please provide city, state, and country."
GeocodeErrorMessage == "Failed to geocode location"
LocationNotFoundMessage == "Location not found"
ForecastErrorMessage == "Failed to fetch weather"
NoForecastMessage == "No forecast data for tomorrow"
DefaultErrorMessage == "An error occurred"
NoAdviceReceived == "No advice received"
SystemMessage == [role |-> "system", content |-> <<"You are a helpful sailing expert.">>]
CompletionModel == "grok-4"

\* ------------------------------------------------------ the environment
\* Values import.meta.env can give each key ('' when unset, line 11-12)
KeyValues == {"", "key"}

\* Values the user can type into each field of the form
FieldValues ==
  [city           |-> {<<>>, <<" ">>, <<"A">>},
   state          |-> {<<>>, <<" ">>},
   country        |-> {<<>>, <<" ">>},
   boatModel      |-> {<<>>, <<"J">>},
   availableSails |-> {<<>>, <<"m">>}]

FieldNames == DOMAIN FieldValues

\* Instants (hours since the epoch) at which a behaviour may start:
\* 2025-01-31T22:00Z, two hours before the UTC month ends
StartInstants == {20119 * 24 + 22}
\* Offsets of the caller's zone east of UTC, in hours: with the instants
\* above, local and UTC calendar dates agree at the start and differ after a Tick
ZoneOffsets == {-5}
\* Hours the clock advances in one Tick
TickHours == {4}
LastInstant == 20119 * 24 + 22 + 4 * MaxTicks

\* Errors a rejected fetch or Response.json promise carries
RejectMessages == {"Failed to fetch", ""}
\* Errors the SDK raises: a connection failure, a non-success status
SdkMessages == {"Connection error.", "500 status code (no body)"}

\* What `await fetch(url)` produces
FetchOutcomes ==
  [rejected : {TRUE}, message : RejectMessages, ok : {FALSE}]
  \cup [rejected : {FALSE}, message : {""}, ok : BOOLEAN]

Lists(S, n) == UNION {[1..k -> S] : k \in 0..n}

\* The match the geocoding service has for the locations of the model
Coordinates == {[lat |-> 38, lon |-> -76]}

\* Records of the forecast service; dt_txt is "YYYY-MM-DD HH:MM:SS"
ForecastItems ==
  {[dt_txt |-> <<"2","0","2","5","-","0","2","-","0","1"," ","0","9",":","0","0",":","0","0">>,
    wind |-> [speed |-> 3, deg |-> 180]],
   [dt_txt |-> <<"2","0","2","5","-","0","2","-","0","1"," ","1","2",":","0","0",":","0","0">>,
    wind |-> [speed |-> 5, deg |-> 190]],
   [dt_txt |-> <<"2","0","2","5","-","0","2","-","0","2"," ","0","0",":","0","0",":","0","0">>,
    wind |-> [speed |-> 2, deg |-> 200]]}

\* What `await res.json()` produces for the two fetches
GeocodeJsonOutcomes ==
  [rejected : {TRUE}, message : RejectMessages, data : {<<>>}]
  \cup [rejected : {FALSE}, message : {""}, data : Lists(Coordinates, GeocodeLimit)]

ForecastJsonOutcomes ==
  [rejected : {TRUE}, message : RejectMessages, data : {[list |-> <<>>]}]
  \cup [rejected : {FALSE}, message : {""},
        data : [list : Lists(ForecastItems, MaxList)]]

\* Message content of a choice: <<>> when absent (null/undefined), else <<text>>
Contents == {<<>>, <<"">>, <<"Use the jib...">>, <<"Reef early">>}
Choices == [message : [content : Contents]]
ChoiceLists ==
  {<<>>} \cup {<<c>> : c \in Choices}
  \cup {<<[message |-> [content |-> <<"Use the jib...">>]],
          [message |-> [content |-> <<"Reef early">>]]>>}

\* What `await openai.chat.completions.create(...)` produces
CompletionOutcomes ==
  [rejected : {TRUE}, message : SdkMessages, completion : {[choices |-> <<>>]}]
  \cup [rejected : {FALSE}, message : {""}, completion : [choices : ChoiceLists]]

\* ---------------------------------------------------------------- state
VARIABLES
  OPENWEATHER_API_KEY,  \* module constant, fixed when the bundle is built
  XAI_API_KEY,          \* module constant, fixed when the bundle is built
  inputs,               \* useState: the five form fields
  advice,               \* useState
  loading,              \* useState
  error,                \* useState
  runs,                 \* handleSubmit invocations: the live ones and the last finished
  now,                  \* the system clock, hours since the epoch
  offset                \* the caller's zone, hours east of UTC

vars == <<OPENWEATHER_API_KEY, XAI_API_KEY, inputs, advice, loading, error, runs, now, offset>>

Terminal == {"Succeeded", "Failed"}

\* The locals of one handleSubmit invocation and the position it is suspended at
NewRun ==
  [pc             |-> "start",
   inputs         |-> inputs,      \* the `inputs` the closure captured
   afterError     |-> error # "",  \* an error was on display when it started
   location       |-> <<>>,
   calls          |-> <<>>,        \* external calls issued, in order
   geocodeUrl     |-> <<>>,
   geocodeRes     |-> "none",      \* none | rejected | notok | ok
   geocodeData    |-> <<>>,        \* <<>> until parsed, then <<data>>
   forecastUrl    |-> <<>>,
   forecastRes    |-> "none",
   forecastData   |-> <<>>,
   tomorrowStr    |-> <<>>,
   tomorrowForecast |-> <<>>,
   windInfo       |-> <<>>,
   request        |-> <<>>,        \* <<>> until sent, then <<body>>
   completionRes  |-> "none",
   completion     |-> <<>>,
   thrown         |-> <<>>]        \* <<>> or <<message>> of the error caught

Live(rs) == SelectSeq(rs, LAMBDA r : r.pc \notin Terminal)

Init ==
  /\ OPENWEATHER_API_KEY \in KeyValues
  /\ XAI_API_KEY \in KeyValues
  /\ inputs = [city |-> <<>>, state |-> <<>>, country |-> <<>>,
               boatModel |-> <<>>, availableSails |-> <<>>]
  /\ advice = ""
  /\ loading = FALSE
  /\ error = ""
  /\ runs = <<>>
  /\ now \in StartInstants
  /\ offset \in ZoneOffsets

\* The passage of time between two steps of the program
Tick ==
  /\ \E h \in TickHours : now + h <= LastInstant /\ now' = now + h
  /\ UNCHANGED <<OPENWEATHER_API_KEY, XAI_API_KEY, inputs, advice, loading, error, runs, offset>>

\* variant: the form stays on screen next to the advice
FormRendered_Always == TRUE

\* The form is rendered only while advice is empty
FormRendered == advice = ""

handleChange(name, value) ==
  /\ FormRendered
  /\ inputs' = [inputs EXCEPT ![name] = value]
  /\ UNCHANGED <<OPENWEATHER_API_KEY, XAI_API_KEY, advice, loading, error, runs, now, offset>>

\* ------------------------------------------------- pieces of handleSubmit
\* variant: the test joins the two keys with && instead of ||
KeysMissing_Both(weatherKey, completionKey) == weatherKey = "" /\ completionKey = ""

\* line 66: !OPENWEATHER_API_KEY || !XAI_API_KEY
KeysMissing(weatherKey, completionKey) == weatherKey = "" \/ completionKey = ""

\* line 72: `${inputs.city},${inputs.state},${inputs.country}`.trim()
Location(in) == Trim(in.city \o <<",">> \o in.state \o <<",">> \o in.country)

\* line 74: !location
LocationMissing(location) == location = <<>>

\* line 82
GeocodeUrl(location, key) ==
  <<"https://api.openweathermap.org/geo/1.0/direct?q=">> \o encodeURIComponent(location)
  \o <<"&limit=1&appid=", key>>

\* The status a fetch outcome leaves in the run's record
Status(res) == IF res.rejected THEN "rejected" ELSE IF res.ok THEN "ok" ELSE "notok"

\* variant: the geocode response's ok flag is not tested
GeocodeStatusThrows_IgnoresStatus(res) ==
  IF res.rejected THEN <<res.message>> ELSE <<>>

\* lines 83-84: the error `await fetch(geocodeUrl)` and the ok test raise, if any
GeocodeStatusThrows(res) ==
  IF res.rejected THEN <<res.message>>
  ELSE IF ~res.ok THEN <<GeocodeErrorMessage>>
  ELSE <<>>

\* variant: the empty match sequence is not tested
GeocodeDataThrows_Never(data) == <<>>

\* line 86: geocodeData.length === 0
GeocodeDataThrows(data) ==
  IF Len(data) = 0 THEN <<LocationNotFoundMessage>> ELSE <<>>

\* line 87: const { lat, lon } = geocodeData[0], a TypeError when there is no element
DestructureThrows(data) ==
  IF Len(data) = 0
  THEN <<"Cannot destructure property 'lat' of 'geocodeData[0]' as it is undefined.">>
  ELSE <<>>

\* line 90
ForecastUrl(coords, key) ==
  <<"https://api.openweathermap.org/data/2.5/forecast?lat=">> \o NumText(coords.lat)
  \o <<"&lon=">> \o NumText(coords.lon) \o <<"&units=metric&appid=", key>>

\* variant: the forecast response's ok flag is not tested
ForecastStatusThrows_IgnoresStatus(res) ==
  IF res.rejected THEN <<res.message>> ELSE <<>>

\* lines 91-92
ForecastStatusThrows(res) ==
  IF res.rejected THEN <<res.message>>
  ELSE IF ~res.ok THEN <<ForecastErrorMessage>>
  ELSE <<>>

\* lines 96-98: new Date(); setDate(getDate() + 1); toISOString().split('T')[0]
TomorrowStr(t, zone) ==
  SplitFirst(toISOString(setDate(t, zone, getDate(t, zone) + 1)), "T")

\* variant: an empty selection falls back to the whole forecast
TomorrowForecast_FallsBack(list, tomorrowStr) ==
  LET kept == SelectSeq(list, LAMBDA item : StartsWith(item.dt_txt, tomorrowStr))
  IN IF kept = <<>> THEN list ELSE kept

\* variant: find instead of filter, only the first matching record is kept
TomorrowForecast_FirstOnly(list, tomorrowStr) ==
  LET kept == SelectSeq(list, LAMBDA item : StartsWith(item.dt_txt, tomorrowStr))
  IN IF kept = <<>> THEN kept ELSE <<kept[1]>>

\* line 101: forecastData.list.filter(...)
TomorrowForecast(list, tomorrowStr) ==
  SelectSeq(list, LAMBDA item : StartsWith(item.dt_txt, tomorrowStr))

\* line 103
NoForecastThrows(tomorrowForecast) ==
  IF Len(tomorrowForecast) = 0 THEN <<NoForecastMessage>> ELSE <<>>

\* lines 106-110: tomorrowForecast.map(...)
WindInfo(tomorrowForecast) ==
  [k \in 1..Len(tomorrowForecast) |->
     [time      |-> tomorrowForecast[k].dt_txt,
      speed     |-> tomorrowForecast[k].wind.speed,
      direction |-> tomorrowForecast[k].wind.deg]]

\* line 122: one line of the prompt; the source file spells the unit sign
\* with the two characters U+00C2 U+00B0
WindLine(w) ==
  <<"- ">> \o w.time \o <<": Speed ">> \o NumText(w.speed) \o <<" m/s, Direction ">>
  \o NumText(w.direction) \o <<"U+00C2", "U+00B0">>

\* lines 113-125
Prompt(in, location, tomorrowStr, windInfo) ==
  <<"\nVessel information:\n- Boat model: ">> \o in.boatModel
  \o <<"\n- Available sails: ">> \o in.availableSails
  \o <<"\n\nTrip details:\n- Traveling to: ">> \o location
  \o <<" tomorrow (">> \o tomorrowStr
  \o <<")\n\nPredicted wind for tomorrow:\n">>
  \o Join([k \in 1..Len(windInfo) |-> WindLine(windInfo[k])], <<"\n">>)
  \o <<"\n\nProvide advice on the sail plan for this trip, including sail choices, safety considerations, and any other relevant tips based on the wind conditions.\n">>

\* variant: the prompt reads the form state of the latest render
ClosureInputs_Latest(r) == inputs

\* lines 115-116: `inputs` is the const of the render whose handleSubmit runs
ClosureInputs(r) == r.inputs

\* lines 134-140: the body of the chat-completion request
CompletionRequest(prompt) ==
  [model    |-> CompletionModel,
   messages |-> <<SystemMessage, [role |-> "user", content |-> prompt]>>]

\* variant: the last choice is read instead of the first
LlmAdvice_LastChoice(completion) ==
  IF Len(completion.choices) = 0 THEN NoAdviceReceived
  ELSE LET content == completion.choices[Len(completion.choices)].message.content
       IN IF content = <<>> \/ content[1] = "" THEN NoAdviceReceived ELSE content[1]

\* variant: the `|| 'No advice received'` fallback is missing
LlmAdvice_NoPlaceholder(completion) ==
  IF Len(completion.choices) = 0 THEN ""
  ELSE LET content == completion.choices[1].message.content
       IN IF content = <<>> THEN "" ELSE content[1]

\* line 142: completion.choices[0]?.message?.content || 'No advice received'
LlmAdvice(completion) ==
  IF Len(completion.choices) = 0 THEN NoAdviceReceived
  ELSE LET content == completion.choices[1].message.content
       IN IF content = <<>> \/ content[1] = "" THEN NoAdviceReceived ELSE content[1]

\* variant: an empty message is shown as it is
CaughtMessage_NoDefault(message) == message

\* line 146: (err as Error).message || 'An error occurred'
CaughtMessage(message) == IF message = "" THEN DefaultErrorMessage ELSE message

ClearedError_Kept(previous) == previous

\* line 63: setError('')
ClearedError(previous) == ""

\* line 64: setAdvice('')
ClearedAdvice(previous) == ""

\* variant: the button is never disabled
ButtonEnabled_Always == TRUE

\* line 220: disabled={loading}
ButtonEnabled == ~loading

\* `required` on the five fields: the browser fires no submit event
\* while one of them has an empty value
RequiredFilled == \A f \in FieldNames : inputs[f] # <<>>

SubmitEnabled ==
  /\ FormRendered
  /\ ButtonEnabled
  /\ RequiredFilled
  /\ Len(Live(runs)) < MaxRuns

Env == <<OPENWEATHER_API_KEY, XAI_API_KEY, now, offset>>

\* variant: the finally block does not reset loading
FinallyLoading_Kept == loading

\* line 148: finally { setLoading(false) }
FinallyLoading == FALSE

\* variant: a failed geocode call is issued a second time
CaughtRun_Retries(r, message) ==
  IF r.calls = <<"geocode">>
  THEN [r EXCEPT !.pc = "geocodeFetch", !.calls = Append(@, "geocode"),
                 !.geocodeRes = "none", !.geocodeData = <<>>]
  ELSE [r EXCEPT !.pc = "Failed", !.thrown = <<message>>]

\* lines 145-149: the invocation ends in the catch block, nothing is re-issued
CaughtRun(r, message) == [r EXCEPT !.pc = "Failed", !.thrown = <<message>>]

\* lines 145-149: catch sets the error, finally resets loading
Catch(i, r, message) ==
  /\ runs' = [runs EXCEPT ![i] = CaughtRun(r, message)]
  /\ error' = CaughtMessage(message)
  /\ loading' = FinallyLoading
  /\ UNCHANGED <<Env, inputs, advice>>

\* A step that suspends again at the next await
Suspend(i, r) ==
  /\ runs' = [runs EXCEPT ![i] = r]
  /\ UNCHANGED <<Env, inputs, advice, loading, error>>

\* lines 60-83: from the submit event to the first await
handleSubmit ==
  /\ SubmitEnabled
  /\ LET location == Location(inputs)
         r        == [NewRun EXCEPT !.location = location]
         kept     == Live(runs)
     IN /\ advice' = ClearedAdvice(advice)
        /\ IF KeysMissing(OPENWEATHER_API_KEY, XAI_API_KEY)
           THEN /\ error' = ConfigErrorMessage
                /\ loading' = FALSE
                /\ runs' = Append(kept, [NewRun EXCEPT !.pc = "Failed"])
           ELSE IF LocationMissing(location)
           THEN /\ error' = ValidationErrorMessage
                /\ loading' = FALSE
                /\ runs' = Append(kept, [r EXCEPT !.pc = "Failed"])
           ELSE /\ error' = ClearedError(error)
                /\ loading' = TRUE
                /\ runs' = Append(kept,
                     [r EXCEPT !.pc = "geocodeFetch",
                               !.calls = <<"geocode">>,
                               !.geocodeUrl = GeocodeUrl(location, OPENWEATHER_API_KEY)])
  /\ UNCHANGED <<Env, inputs>>

\* lines 83-85: fetch(geocodeUrl) settles
GeocodeFetchReturns(i, res) ==
  /\ runs[i].pc = "geocodeFetch"
  /\ LET r      == [runs[i] EXCEPT !.geocodeRes = Status(res)]
         thrown == GeocodeStatusThrows(res)
     IN IF thrown # <<>> THEN Catch(i, r, thrown[1])
        ELSE Suspend(i, [r EXCEPT !.pc = "geocodeJson"])

\* lines 85-91: geocodeRes.json() settles
GeocodeJsonReturns(i, out) ==
  /\ runs[i].pc = "geocodeJson"
  /\ LET r      == [runs[i] EXCEPT !.geocodeData = IF out.rejected THEN <<>> ELSE <<out.data>>]
         thrown == IF out.rejected THEN <<out.message>>
                   ELSE IF GeocodeDataThrows(out.data) # <<>> THEN GeocodeDataThrows(out.data)
                   ELSE DestructureThrows(out.data)
     IN IF thrown # <<>> THEN Catch(i, r, thrown[1])
        ELSE Suspend(i, [r EXCEPT !.pc = "forecastFetch",
                                  !.calls = Append(@, "forecast"),
                                  !.forecastUrl = ForecastUrl(out.data[1], OPENWEATHER_API_KEY)])

\* lines 91-93: fetch(forecastUrl) settles
ForecastFetchReturns(i, res) ==
  /\ runs[i].pc = "forecastFetch"
  /\ LET r      == [runs[i] EXCEPT !.forecastRes = Status(res)]
         thrown == ForecastStatusThrows(res)
     IN IF thrown # <<>> THEN Catch(i, r, thrown[1])
        ELSE Suspend(i, [r EXCEPT !.pc = "forecastJson"])

\* lines 93-140: forecastRes.json() settles
ForecastJsonReturns(i, out) ==
  /\ runs[i].pc = "forecastJson"
  /\ IF out.rejected
     THEN Catch(i, runs[i], out.message)
     ELSE LET tomorrowStr      == TomorrowStr(now, offset)
              tomorrowForecast == TomorrowForecast(out.data.list, tomorrowStr)
              windInfo         == WindInfo(tomorrowForecast)
              r == [runs[i] EXCEPT !.forecastData     = <<out.data>>,
                                   !.tomorrowStr      = tomorrowStr,
                                   !.tomorrowForecast = tomorrowForecast]
              thrown == NoForecastThrows(tomorrowForecast)
          IN IF thrown # <<>> THEN Catch(i, r, thrown[1])
             ELSE Suspend(i,
                    [r EXCEPT !.pc = "completion",
                              !.calls = Append(@, "completion"),
                              !.windInfo = windInfo,
                              !.request = <<CompletionRequest(
                                  Prompt(ClosureInputs(r), r.location, tomorrowStr, windInfo))>>])

\* lines 134-149: openai.chat.completions.create(...) settles
CompletionReturns(i, out) ==
  /\ runs[i].pc = "completion"
  /\ LET r == [runs[i] EXCEPT !.completionRes = IF out.rejected THEN "rejected" ELSE "ok"]
     IN IF out.rejected
        THEN Catch(i, r, out.message)
        ELSE /\ runs' = [runs EXCEPT ![i] = [r EXCEPT !.pc = "Succeeded",
                                                     !.completion = <<out.completion>>]]
             /\ advice' = LlmAdvice(out.completion)
             /\ loading' = FinallyLoading
             /\ UNCHANGED <<Env, inputs, error>>

Next ==
  \/ Tick
  \/ \E name \in FieldNames : \E value \in FieldValues[name] : handleChange(name, value)
  \/ handleSubmit
  \/ \E i \in DOMAIN runs : \E res \in FetchOutcomes : GeocodeFetchReturns(i, res)
  \/ \E i \in DOMAIN runs : \E out \in GeocodeJsonOutcomes : GeocodeJsonReturns(i, out)
  \/ \E i \in DOMAIN runs : \E res \in FetchOutcomes : ForecastFetchReturns(i, res)
  \/ \E i \in DOMAIN runs : \E out \in ForecastJsonOutcomes : ForecastJsonReturns(i, out)
  \/ \E i \in DOMAIN runs : \E out \in CompletionOutcomes : CompletionReturns(i, out)

Spec == Init /\ [][Next]_vars

\* Every awaited promise settles: the call returns or fails
Settles ==
  /\ WF_vars(\E i \in DOMAIN runs : \E res \in FetchOutcomes : GeocodeFetchReturns(i, res))
  /\ WF_vars(\E i \in DOMAIN runs : \E out \in GeocodeJsonOutcomes : GeocodeJsonReturns(i, out))
  /\ WF_vars(\E i \in DOMAIN runs : \E res \in FetchOutcomes : ForecastFetchReturns(i, res))
  /\ WF_vars(\E i \in DOMAIN runs : \E out \in ForecastJsonOutcomes : ForecastJsonReturns(i, out))
  /\ WF_vars(\E i \in DOMAIN runs : \E out \in CompletionOutcomes : CompletionReturns(i, out))

FairSpec == Spec /\ Settles

\* ================================================================ claims
NoCalls == <<>>
GeocodeOnly == <<"geocode">>
GeocodeForecast == <<"geocode", "forecast">>
AllCalls == <<"geocode", "forecast", "completion">>

IsBlank(s) == \A k \in 1..Len(s) : s[k] = Space

\* The forecast list the run received has a record of the run's target date
HasRecordFor(list, dateText) ==
  \E k \in 1..Len(list) :
     /\ Len(list[k].dt_txt) >= Len(dateText)
     /\ \A j \in 1..Len(dateText) : list[k].dt_txt[j] = dateText[j]

\* C1: within one run the external calls are issued in the order geocode,
\* forecast, completion; the forecast call only after the geocode call
\* returned successfully with at least one match; the completion call only
\* after the forecast call returned successfully and the records kept for
\* the target date are non-empty; a run that failed at a stage has issued
\* no call of a later stage.
C1_CallOrder ==
  \A i \in DOMAIN runs :
    LET r == runs[i] IN
    /\ r.calls \in {NoCalls, GeocodeOnly, GeocodeForecast, AllCalls}
    /\ Len(r.calls) >= 2 =>
         /\ r.geocodeRes = "ok"
         /\ r.geocodeData # <<>>
         /\ Len(r.geocodeData[1]) >= 1
    /\ Len(r.calls) >= 3 =>
         /\ r.forecastRes = "ok"
         /\ r.forecastData # <<>>
         /\ HasRecordFor(r.forecastData[1].list, r.tomorrowStr)
    /\ (r.pc = "Failed" /\ r.forecastRes = "none") => Len(r.calls) <= 1
    /\ (r.pc = "Failed" /\ r.completionRes = "none") => Len(r.calls) <= 2

C1_Witness ==
  \E i \in DOMAIN runs : runs[i].calls = AllCalls /\ runs[i].pc = "completion"

\* C2: if either configured key is empty, every run ends in Failed with the
\* configuration error message and has issued no network call, whatever the
\* form inputs are.
C2_ConfigError ==
  (OPENWEATHER_API_KEY = "" \/ XAI_API_KEY = "") =>
    \A i \in DOMAIN runs :
      /\ runs[i].pc = "Failed"
      /\ runs[i].calls = NoCalls
      /\ runs[i].geocodeUrl = <<>> /\ runs[i].forecastUrl = <<>> /\ runs[i].request = <<>>
      /\ error = ConfigErrorMessage
      /\ advice = ""
      /\ ~loading

C2_Witness ==
  /\ OPENWEATHER_API_KEY # "" /\ XAI_API_KEY = ""
  /\ \E i \in DOMAIN runs : runs[i].pc = "Failed" /\ runs[i].inputs.city = <<"A">>
  /\ error = ConfigErrorMessage

\* C3: a run whose city, state and country are all empty or whitespace-only
\* goes directly to Failed with the validation error message and issues no
\* network call.
C3_BlankLocationRejected ==
  \A i \in DOMAIN runs :
    LET r == runs[i] IN
    (/\ OPENWEATHER_API_KEY # "" /\ XAI_API_KEY # ""
     /\ IsBlank(r.inputs.city) /\ IsBlank(r.inputs.state) /\ IsBlank(r.inputs.country))
    => /\ r.pc = "Failed"
       /\ r.calls = NoCalls
       /\ error = ValidationErrorMessage

\* C4: with configured keys and non-empty city/state/country, if the
\* geocoding call succeeds with an empty match sequence the run ends in
\* Failed with the location-not-found message, and neither the forecast
\* call nor the completion call is issued.
C4_LocationNotFound ==
  \A i \in DOMAIN runs :
    LET r == runs[i] IN
    (r.geocodeRes = "ok" /\ r.geocodeData = << <<>> >>)
    => /\ r.pc = "Failed"
       /\ r.calls = GeocodeOnly
       /\ r.forecastUrl = <<>> /\ r.request = <<>>
       /\ error = LocationNotFoundMessage
       /\ advice = ""
       /\ ~loading

C4_Witness ==
  \E i \in DOMAIN runs :
    /\ runs[i].geocodeData = << <<>> >>
    /\ runs[i].pc = "Failed"
    /\ runs[i].inputs.city = <<"A">>

\* C5: if no record of the forecast sequence has a timestamp that begins
\* with the computed target date, the run ends in Failed with the
\* no-forecast message, no completion call is issued, and no record of
\* another day is used.
C5_NoForecastForDate ==
  \A i \in DOMAIN runs :
    LET r == runs[i] IN
    (r.forecastData # <<>> /\ ~HasRecordFor(r.forecastData[1].list, r.tomorrowStr))
    => /\ r.pc = "Failed"
       /\ r.calls = GeocodeForecast
       /\ r.tomorrowForecast = <<>> /\ r.windInfo = <<>> /\ r.request = <<>>
       /\ error = NoForecastMessage
       /\ advice = ""
       /\ ~loading

C5_Witness ==
  \E i \in DOMAIN runs :
    /\ runs[i].forecastData # <<>>
    /\ Len(runs[i].forecastData[1].list) = MaxList
    /\ ~HasRecordFor(runs[i].forecastData[1].list, runs[i].tomorrowStr)
    /\ runs[i].pc = "Failed"

\* C6: if the forecast service answers with a non-success status the run
\* ends in Failed with the forecast error message; the geocode call was
\* issued exactly once before it and the completion call is not issued.
C6_ForecastUpstreamError ==
  \A i \in DOMAIN runs :
    LET r == runs[i] IN
    r.forecastRes = "notok"
    => /\ r.pc = "Failed"
       /\ error = ForecastErrorMessage
       /\ Cardinality({k \in DOMAIN r.calls : r.calls[k] = "geocode"}) = 1
       /\ r.calls[1] = "geocode"
       /\ \A k \in DOMAIN r.calls : r.calls[k] # "completion"
       /\ r.request = <<>>
       /\ ~loading

C6_Witness ==
  \E i \in DOMAIN runs :
    runs[i].forecastRes = "notok" /\ runs[i].pc = "Failed" /\ runs[i].geocodeRes = "ok"

\* C7: the advice text and the error message are never both non-empty, also
\* when a run follows a failed one.
C7_NoAdviceWithError == ~(advice # "" /\ error # "")

C7_Witness ==
  /\ advice # "" /\ error = ""
  /\ \E i \in DOMAIN runs : runs[i].pc = "Succeeded" /\ runs[i].afterError

\* C8: when the completion call succeeds and its first choice carries
\* non-empty content, the run ends in Succeeded and the advice is exactly
\* that content, whatever the other choices are.
C8_AdviceIsFirstContent ==
  \A i \in DOMAIN runs :
    LET r == runs[i] IN
    (/\ r.completion # <<>>
     /\ Len(r.completion[1].choices) >= 1
     /\ r.completion[1].choices[1].message.content \notin {<<>>, <<"">>})
    => /\ r.pc = "Succeeded"
       /\ advice = r.completion[1].choices[1].message.content[1]
       /\ error = ""
       /\ ~loading

C8_Witness ==
  \E i \in DOMAIN runs :
    /\ runs[i].pc = "Succeeded"
    /\ Len(runs[i].completion[1].choices) = 2
    /\ runs[i].completion[1].choices[2].message.content = <<"Reef early">>
    /\ advice = "Use the jib..."

\* C9: when the completion call succeeds but its first choice has no
\* content, the run ends in Succeeded with the advice "No advice received"
\* and no error message.
C9_PlaceholderAdvice ==
  \A i \in DOMAIN runs :
    LET r == runs[i] IN
    (/\ r.completion # <<>>
     /\ Len(r.completion[1].choices) >= 1
     /\ r.completion[1].choices[1].message.content \in {<<>>, <<"">>})
    => /\ r.pc = "Succeeded"
       /\ advice = "No advice received"
       /\ error = ""
       /\ ~loading

C9_Witness ==
  \E i \in DOMAIN runs :
    /\ runs[i].pc = "Succeeded"
    /\ runs[i].completion # <<>>
    /\ Len(runs[i].completion[1].choices) = 1
    /\ runs[i].completion[1].choices[1].message.content = <<>>
    /\ advice = "No advice received"

\* C10: at most one invocation is running at any time: while one is, loading
\* is true and the submit control is disabled, so no second run starts
\* before the first reached Succeeded or Failed.
C10_OneRunning ==
  /\ Cardinality({i \in DOMAIN runs : runs[i].pc \notin Terminal}) <= 1
  /\ (\E i \in DOMAIN runs : runs[i].pc \notin Terminal) => (loading /\ ~ENABLED handleSubmit)

C10_Witness ==
  /\ loading
  /\ \E i \in DOMAIN runs : runs[i].pc = "forecastFetch" /\ runs[i].afterError
  /\ \A f \in FieldNames : inputs[f] # <<>>

\* C11: once a run has begun it reaches Succeeded or Failed with loading
\* reset to false, provided every issued external call returns or fails;
\* a run that fails the key or location test ends with loading false at
\* once.
C11_RunTerminates ==
  /\ (loading \/ \E i \in DOMAIN runs : runs[i].pc \notin Terminal)
       ~> (~loading /\ \A i \in DOMAIN runs : runs[i].pc \in Terminal)
  /\ []((\A i \in DOMAIN runs : runs[i].pc \in Terminal) => ~loading)

C11_Witness ==
  /\ ~loading
  /\ runs # <<>>
  /\ \A i \in DOMAIN runs : runs[i].pc = "Failed" /\ runs[i].calls = GeocodeForecast
  /\ \E i \in DOMAIN runs : runs[i].forecastRes = "rejected"

\* The advice line 142 yields for the completion a run received
AdviceOf(completion) ==
  IF /\ Len(completion.choices) >= 1
     /\ completion.choices[1].message.content \notin {<<>>, <<"">>}
  THEN completion.choices[1].message.content[1]
  ELSE "No advice received"

\* C12: starting a run clears the previous advice and error before any
\* stage executes: while a run is suspended both are empty; once it has
\* ended, the advice and the error on display are the ones of that run.
C12_FreshOutcome ==
  \A i \in DOMAIN runs :
    LET r == runs[i] IN
    /\ r.pc \notin Terminal => (advice = "" /\ error = "")
    /\ r.pc = "Succeeded" =>
         /\ error = ""
         /\ r.completion # <<>>
         /\ advice = AdviceOf(r.completion[1])
    /\ r.pc = "Failed" =>
         /\ advice = ""
         /\ r.thrown = <<>> => error \in {ConfigErrorMessage, ValidationErrorMessage}
         /\ r.thrown # <<>> =>
              error = (IF r.thrown[1] = "" THEN "An error occurred" ELSE r.thrown[1])

C12_Witness ==
  /\ error = "" /\ advice = ""
  /\ \E i \in DOMAIN runs : runs[i].pc = "geocodeJson" /\ runs[i].afterError

\* Number of external calls of a run that have returned or failed
Settled(r) ==
  Cardinality({c \in {"geocode", "forecast", "completion"} :
     \/ c = "geocode" /\ r.geocodeRes # "none"
     \/ c = "forecast" /\ r.forecastRes # "none"
     \/ c = "completion" /\ r.completionRes # "none"})

\* C13: each external call is issued at most once per run, whatever fails,
\* and a run that has failed has no call outstanding: it issued nothing
\* after the failure.
C13_AtMostOnce ==
  \A i \in DOMAIN runs :
    LET r == runs[i] IN
    /\ \A c \in {"geocode", "forecast", "completion"} :
         Cardinality({k \in DOMAIN r.calls : r.calls[k] = c}) <= 1
    /\ r.pc = "Failed" => Len(r.calls) = Settled(r)
    /\ r.pc \in {"geocodeFetch", "forecastFetch", "completion"} =>
         Len(r.calls) = Settled(r) + 1
    /\ r.pc \in {"geocodeJson", "forecastJson", "Succeeded"} =>
         Len(r.calls) = Settled(r)

C13_Witness ==
  \E i \in DOMAIN runs :
    /\ runs[i].pc = "Failed"
    /\ runs[i].geocodeRes = "rejected"
    /\ runs[i].calls = GeocodeOnly
    /\ ~loading

\* The call whose failure (transport failure or non-success status) ended
\* the run, <<>> when the run did not end that way
FailedCall(r) ==
  IF r.geocodeRes \in {"rejected", "notok"} THEN <<"geocode">>
  ELSE IF r.forecastRes \in {"rejected", "notok"} THEN <<"forecast">>
  ELSE IF r.completionRes = "rejected" THEN <<"completion">>
  ELSE <<>>

\* The messages that only a failure of the given call puts on display
UpstreamMessages(call) ==
  IF call = "geocode" THEN {"Failed to geocode location"}
  ELSE IF call = "forecast" THEN {"Failed to fetch weather"}
  ELSE {"Connection error.", "500 status code (no body)"}

\* C14: every failure of an external call, a non-success status or a
\* transport failure, ends the run in Failed with an error that identifies
\* the call that failed.
C14_UpstreamErrorNamesCall ==
  \A i \in DOMAIN runs :
    LET r == runs[i] IN
    FailedCall(r) # <<>> =>
      /\ r.pc = "Failed"
      /\ error \in UpstreamMessages(FailedCall(r)[1])

\* "YYYY-MM-DD" of a day number
DateText(day) ==
  LET c == CivilFromDays(day)
  IN PadStart(NumText(c.y), 4) \o <<"-">> \o PadStart(NumText(c.m), 2) \o <<"-">>
     \o PadStart(NumText(c.d), 2)

\* The caller's local calendar date at instant t in the given zone, plus one day
LocalTomorrow(t, zone) == DateText((t + zone) \div 24 + 1)

\* C15: the target date that filters the forecast is the caller's local
\* calendar date plus one day, at every time of day and for every offset
\* between local time and UTC.
C15_TargetDateIsLocalTomorrow ==
  [][\A i \in DOMAIN runs :
       (/\ runs[i].pc = "forecastJson"
        /\ i \in DOMAIN runs'
        /\ runs'[i].tomorrowStr # <<>>)
       => runs'[i].tomorrowStr = LocalTomorrow(now, offset)]_vars

\* The positions of the forecast list whose timestamp begins with the text
Matching(list, dateText) ==
  {k \in 1..Len(list) :
     /\ Len(list[k].dt_txt) >= Len(dateText)
     /\ \A j \in 1..Len(dateText) : list[k].dt_txt[j] = dateText[j]}

\* C16: the wind summary has exactly one entry per forecast record whose
\* timestamp begins with the target date text, carrying that record's
\* timestamp, speed and direction, in the order the forecast delivered
\* them: nothing added, dropped, duplicated or reordered.
C16_WindSummaryIsSelection ==
  \A i \in DOMAIN runs :
    LET r == runs[i] IN
    r.request # <<>> =>
      LET list == r.forecastData[1].list
          idx  == Matching(list, r.tomorrowStr)
      IN /\ Len(r.windInfo) = Cardinality(idx)
         /\ \E f \in [1..Len(r.windInfo) -> idx] :
              /\ \A a, b \in 1..Len(r.windInfo) : a < b => f[a] < f[b]
              /\ \A a \in 1..Len(r.windInfo) :
                   /\ r.windInfo[a].time = list[f[a]].dt_txt
                   /\ r.windInfo[a].speed = list[f[a]].wind.speed
                   /\ r.windInfo[a].direction = list[f[a]].wind.deg

C16_Witness ==
  \E i \in DOMAIN runs :
    /\ runs[i].request # <<>>
    /\ Len(runs[i].windInfo) = 2
    /\ runs[i].windInfo[1].speed = 5
    /\ runs[i].windInfo[2].speed = 3

\* A prompt line in the format "<time>: Speed <speed> m/s, Direction
\* <direction>" followed by the degree sign U+00B0, as a list item
DegreeLine(w) ==
  <<"- ">> \o w.time \o <<": Speed ">> \o NumText(w.speed) \o <<" m/s, Direction ">>
  \o NumText(w.direction) \o <<"U+00B0">>

\* C17: the completion request is the fixed system message followed by one
\* user message, the prompt; the prompt embeds verbatim the boat model, the
\* available sails, the location and the target date, and has one line per
\* wind-summary entry, in summary order, in the format
\* "<time>: Speed <speed> m/s, Direction <direction>" + degree sign.
C17_PromptContent ==
  \A i \in DOMAIN runs :
    LET r == runs[i] IN
    r.request # <<>> =>
      LET messages == r.request[1].messages IN
      /\ Len(messages) = 2
      /\ messages[1] = [role |-> "system", content |-> <<"You are a helpful sailing expert.">>]
      /\ messages[2].role = "user"
      /\ messages[2].content =
           <<"\nVessel information:\n- Boat model: ">> \o r.inputs.boatModel
           \o <<"\n- Available sails: ">> \o r.inputs.availableSails
           \o <<"\n\nTrip details:\n- Traveling to: ">> \o r.location
           \o <<" tomorrow (">> \o r.tomorrowStr
           \o <<")\n\nPredicted wind for tomorrow:\n">>
           \o Join([k \in 1..Len(r.windInfo) |-> DegreeLine(r.windInfo[k])], <<"\n">>)
           \o <<"\n\nProvide advice on the sail plan for this trip, including sail choices, safety considerations, and any other relevant tips based on the wind conditions.\n">>

\* C18: every terminal state differs from the idle one: after a run has
\* ended exactly one of advice and error is non-empty; an empty completion
\* content is replaced by the placeholder and an empty error message by
\* 'An error occurred'.
C18_ExactlyOneOutcome ==
  (runs # <<>> /\ \A i \in DOMAIN runs : runs[i].pc \in Terminal) =>
    /\ (advice # "") # (error # "")
    /\ (\E i \in DOMAIN runs : runs[i].pc = "Succeeded") => advice # ""
    /\ (\A i \in DOMAIN runs : runs[i].pc = "Failed") => error # ""

C18_Witness ==
  /\ error = "An error occurred"
  /\ advice = ""
  /\ \E i \in DOMAIN runs : runs[i].pc = "Failed" /\ runs[i].thrown = <<"">>

\* C19: Succeeded is absorbing: once a run has succeeded the form is gone,
\* no run can be started and the advice never changes; after a failed run
\* the form is still there and a filled form can be submitted again.
C19_SucceededAbsorbing ==
  /\ []((\E i \in DOMAIN runs : runs[i].pc = "Succeeded") =>
          (advice # "" /\ ~ENABLED handleSubmit))
  /\ []((/\ runs # <<>>
         /\ \A i \in DOMAIN runs : runs[i].pc = "Failed"
         /\ \A f \in FieldNames : inputs[f] # <<>>) => ENABLED handleSubmit)
  /\ [][advice # "" => (advice' = advice /\ runs' = runs /\ inputs' = inputs)]_vars

C19_Witness ==
  /\ advice = "Reef early"
  /\ ~loading
  /\ \A f \in FieldNames : inputs[f] # <<>>
  /\ \E i \in DOMAIN runs : runs[i].pc = "Succeeded"
  /\ now = LastInstant

\* C20: a run uses one snapshot of the form: the location that is geocoded
\* and the location, boat model and sails of the prompt are the field values
\* at the moment of submission, however edits (handleChange) interleave
\* with the settling of the external calls.
C20_InputsSnapshot ==
  /\ [][(~loading /\ loading') => runs'[Len(runs')].inputs = inputs]_vars
  /\ [][\A i \in DOMAIN runs :
          (runs[i].pc \notin Terminal /\ i \in DOMAIN runs')
          => (runs'[i].inputs = runs[i].inputs /\ runs'[i].location = runs[i].location)]_vars
  /\ [](\A i \in DOMAIN runs :
          LET r == runs[i]
              submitted == Trim(r.inputs.city \o <<",">> \o r.inputs.state
                                \o <<",">> \o r.inputs.country)
          IN /\ r.geocodeUrl # <<>> =>
                  /\ r.location = submitted
                  /\ r.geocodeUrl =
                       <<"https://api.openweathermap.org/geo/1.0/direct?q=">>
                       \o encodeURIComponent(submitted)
                       \o <<"&limit=1&appid=", OPENWEATHER_API_KEY>>
             /\ r.request # <<>> =>
                  r.request[1].messages[2].content =
                    Prompt(r.inputs, submitted, r.tomorrowStr, r.windInfo))

C20_Witness ==
  \E i \in DOMAIN runs :
    /\ runs[i].pc = "completion"
    /\ runs[i].request # <<>>
    /\ runs[i].inputs.city = <<"A">> /\ inputs.city = <<" ">>
    /\ runs[i].inputs.boatModel = <<"J">> /\ inputs.boatModel = <<>>
    /\ runs[i].inputs.availableSails = <<"m">> /\ inputs.availableSails = <<>>

====
